---- MODULE Spec2Model ----
(***************************************************************************)
(* Model of server.py: a Flask service whose POST /remove-bg handler runs  *)
(* a background-removal model that a daemon thread loads at import time.   *)
(* The initialization thread (_preload_rembg) and the request threads      *)
(* (remove_bg) interleave one source line at a time; the only shared state *)
(* is the three module globals remove_fn, session and ready_event.         *)
(***************************************************************************)
EXTENDS Integers, FiniteSets, Sequences, TLC

\* ------------------------------------------------------------------ bounds
\* Number of requests the model accepts over all worker threads.
MaxRequests == 3

\* Sides of the pictures the downscale runs draw: 1..MaxSmallSide, the sides
\* within SideDelta of max_dim, and a few larger ones.
MaxSmallSide == 4

SideDelta == 3

\* Worker threads of the WSGI server that run remove_bg concurrently.
Threads == {"t1", "t2"}

\* ------------------------------------------------------- program constants
\* app.config["MAX_CONTENT_LENGTH"] = 10 * 1024 * 1024
MAX_CONTENT_LENGTH == 10 * 1024 * 1024

\* downscale_if_needed(img, max_dim=800)
MAX_DIM == 800

\* The values the module globals hold: None, rembg.remove, the u2netp session.
None == "None"
RembgRemove == "rembg.remove"
U2netpSession == "session:u2netp"

\* ------------------------------------------------------------------ inputs
\* A decoded picture: its pixel grid size and a token standing for its pixels.
NoImg == [w |-> 0, h |-> 0, px |-> "none"]

Pixels == {"pxA", "pxB"}

\* Pixel grids of the uploads: within max_dim, exactly max_dim, wider, taller.
Dims == {<<8, 8>>, <<800, 600>>, <<2000, 1000>>, <<3, 801>>}

\* Request bodies.  size is the body length, field is what the multipart
\* body holds under the name "image" (no part, a file part with an empty
\* filename, a file part with a filename), decodable says whether PIL can
\* open the bytes, img is the picture the bytes encode.
UploadPayloads ==
    { [size |-> MAX_CONTENT_LENGTH, field |-> "file", decodable |-> TRUE,
       img |-> [w |-> d[1], h |-> d[2], px |-> p]] : d \in Dims, p \in Pixels }

Payloads ==
    UploadPayloads
    \cup { [size |-> MAX_CONTENT_LENGTH, field |-> "file", decodable |-> FALSE,
            img |-> NoImg] }
    \cup { [size |-> s, field |-> f, decodable |-> FALSE, img |-> NoImg] :
              s \in {MAX_CONTENT_LENGTH, MAX_CONTENT_LENGTH + 1},
              f \in {"absent", "empty"} }
    \cup { [size |-> MAX_CONTENT_LENGTH + 1, field |-> "file",
            decodable |-> TRUE, img |-> [w |-> 8, h |-> 8, px |-> "pxA"]] }

NoPayload == [size |-> 0, field |-> "absent", decodable |-> FALSE, img |-> NoImg]

\* ---------------------------------------------------------------- responses
NoResp == [status |-> 0, ctype |-> "", text |-> "", img |-> NoImg]

TextResp(code, msg) ==
    [status |-> code, ctype |-> "text/plain", text |-> msg, img |-> NoImg]

\* send_file(buf, mimetype="image/png"): 200 with the PNG bytes of out_img.
PngResp(out) ==
    [status |-> 200, ctype |-> "image/png", text |-> "", img |-> out]

\* @app.errorhandler(413)
handle_request_entity_too_large == TextResp(413, "File too large")

\* str(e) of the exceptions the try block of remove_bg can catch.
DecodeErr == "cannot identify image file"
InferErr == "inference failed"
EncodeErr == "encoder error"
NoneCallErr == "'NoneType' object is not callable"

\* ----------------------------------------------------------------- state
VARIABLES
    remove_fn,    \* module global remove_fn
    session,      \* module global session
    ready_event,  \* threading.Event: TRUE when set
    initPc,       \* position of the _preload_rembg thread
    printed,      \* last message _preload_rembg printed
    pc,           \* pc[t]: position of worker t inside remove_bg
    payload,      \* payload[t]: the request body worker t is serving
    img,          \* img[t]: local img of remove_bg
    out_img,      \* out_img[t]: local out_img of remove_bg
    usedFn,       \* usedFn[t]: the callable worker t invoked at line 100
    usedSess,     \* usedSess[t]: the session= argument of that call
    gate,         \* gate[t]: outcome of the readiness test of line 91
    resp,         \* resp[t]: the response returned to the client
    accepted,     \* number of requests accepted so far
    healthResp    \* the response of the GET / request in progress, if any

vars == <<remove_fn, session, ready_event, initPc, printed, pc, payload, img,
          out_img, usedFn, usedSess, gate, resp, accepted, healthResp>>

globals == <<remove_fn, session, ready_event, initPc, printed>>

\* ------------------------------------------------------ downscale (pure)
Max(a, b) == IF a >= b THEN a ELSE b

Abs(a) == IF a >= 0 THEN a ELSE -a

CeilDiv(a, b) == (a + b - 1) \div b

\* Variant of ThumbnailSize: the picture is resized to the box itself
\* (Image.resize instead of Image.thumbnail).
ThumbnailSize_Stretch(w, h, m) == <<m, m>>

\* Image.thumbnail((m, m)) on a w x h picture with max(w, h) > m: the size
\* PIL's preserve_aspect_ratio picks.  aspect = w / h; round_aspect takes
\* the floor or the ceiling of the scaled side, whichever keeps the aspect
\* ratio closer (floor on a tie), and never less than 1.
ThumbnailSize(w, h, m) ==
    IF w <= h
    THEN LET lo == (m * w) \div h
             hi == CeilDiv(m * w, h)
             \* key(n) = |w/h - n/m|, compared as |w*m - n*h|
             x  == IF Abs(w * m - lo * h) <= Abs(w * m - hi * h) THEN lo ELSE hi
         IN  <<Max(x, 1), m>>
    ELSE LET lo == (m * h) \div w
             hi == CeilDiv(m * h, w)
             \* key(n) = 0 if n == 0 else |w/h - m/n|, compared cross-multiplied
             y  == IF lo = 0 THEN 0
                   ELSE IF Abs(w * lo - m * h) * hi <= Abs(w * hi - m * h) * lo
                        THEN lo ELSE hi
         IN  <<m, Max(y, 1)>>

\* downscale_if_needed(img, max_dim) when thumbnail succeeds.
downscale_if_needed(i, max_dim) ==
    IF Max(i.w, i.h) > max_dim
    THEN LET s == ThumbnailSize(i.w, i.h, max_dim)
         IN  [w |-> s[1], h |-> s[2], px |-> i.px]
    ELSE i

\* rembg.remove(img, session=session): the cutout has the size of its input
\* and is computed from the input's pixels only.
RemoveBackground(i) == [w |-> i.w, h |-> i.h, px |-> i.px]

\* ------------------------------------------------------------------ Init
Init ==
    /\ remove_fn = None
    /\ session = None
    /\ ready_event = FALSE
    /\ initPc = "import"
    /\ printed = "none"
    /\ pc = [t \in Threads |-> "idle"]
    /\ payload = [t \in Threads |-> NoPayload]
    /\ img = [t \in Threads |-> NoImg]
    /\ out_img = [t \in Threads |-> NoImg]
    /\ usedFn = [t \in Threads |-> None]
    /\ usedSess = [t \in Threads |-> None]
    /\ gate = [t \in Threads |-> "untested"]
    /\ resp = [t \in Threads |-> NoResp]
    /\ accepted = 0
    /\ healthResp = NoResp

requestVars ==
    <<pc, payload, img, out_img, usedFn, usedSess, gate, resp, accepted>>

\* ------------------------------------------- _preload_rembg (lines 44-63)
\* line 47: from rembg import remove, new_session  -- succeeds
ImportOk ==
    /\ initPc = "import"
    /\ initPc' = "assign_fn"
    /\ printed' = "Starting rembg preload..."
    /\ UNCHANGED <<remove_fn, session, ready_event, requestVars, healthResp>>

\* Variant of ImportFail: the failure handler starts the import again.
ImportFail_Retry ==
    /\ initPc = "import"
    /\ initPc' = "import"
    /\ printed' = "rembg preload failed"
    /\ UNCHANGED <<remove_fn, session, ready_event, requestVars, healthResp>>

\* line 47 raises; lines 62-63 print and return without touching ready_event
ImportFail ==
    /\ initPc = "import"
    /\ initPc' = "done"
    /\ printed' = "rembg preload failed"
    /\ UNCHANGED <<remove_fn, session, ready_event, requestVars, healthResp>>

\* Variant of AssignRemoveFn: the event is set as soon as remove_fn is bound.
AssignRemoveFn_SetsReadyEarly ==
    /\ initPc = "assign_fn"
    /\ remove_fn' = RembgRemove
    /\ ready_event' = TRUE
    /\ initPc' = "new_session"
    /\ UNCHANGED <<session, printed, requestVars, healthResp>>

\* line 50: remove_fn = _remove
AssignRemoveFn ==
    /\ initPc = "assign_fn"
    /\ remove_fn' = RembgRemove
    /\ initPc' = "new_session"
    /\ UNCHANGED <<session, ready_event, printed, requestVars, healthResp>>

\* Variant of NewSessionOk: the event is set before the warm-up call.
NewSessionOk_SetsReady ==
    /\ initPc = "new_session"
    /\ session' = U2netpSession
    /\ ready_event' = TRUE
    /\ initPc' = "warmup"
    /\ UNCHANGED <<remove_fn, printed, requestVars, healthResp>>

\* line 52: session = _new_session("u2netp")  -- succeeds
NewSessionOk ==
    /\ initPc = "new_session"
    /\ session' = U2netpSession
    /\ initPc' = "warmup"
    /\ UNCHANGED <<remove_fn, ready_event, printed, requestVars, healthResp>>

\* Variant of NewSessionFail: the finally clause belongs to the outer try.
NewSessionFail_SetsReady ==
    /\ initPc = "new_session"
    /\ initPc' = "done"
    /\ ready_event' = TRUE
    /\ printed' = "rembg preload failed"
    /\ UNCHANGED <<remove_fn, session, requestVars, healthResp>>

\* line 52 raises; the outer except (lines 62-63) prints and returns
NewSessionFail ==
    /\ initPc = "new_session"
    /\ initPc' = "done"
    /\ printed' = "rembg preload failed"
    /\ UNCHANGED <<remove_fn, session, ready_event, requestVars, healthResp>>

\* lines 55-57: the warm-up call returns
WarmupOk ==
    /\ initPc = "warmup"
    /\ initPc' = "finally"
    /\ printed' = "rembg warm-up completed."
    /\ UNCHANGED <<remove_fn, session, ready_event, requestVars, healthResp>>

\* Variant of WarmupFail: the handler has no finally clause.
WarmupFail_NoFinally ==
    /\ initPc = "warmup"
    /\ initPc' = "done"
    /\ printed' = "rembg warm-up failed (continuing)"
    /\ UNCHANGED <<remove_fn, session, ready_event, requestVars, healthResp>>

\* lines 55-56 raise; lines 58-59 print "warm-up failed (continuing)"
WarmupFail ==
    /\ initPc = "warmup"
    /\ initPc' = "finally"
    /\ printed' = "rembg warm-up failed (continuing)"
    /\ UNCHANGED <<remove_fn, session, ready_event, requestVars, healthResp>>

\* lines 60-61: finally: ready_event.set()
SetReady ==
    /\ initPc = "finally"
    /\ ready_event' = TRUE
    /\ initPc' = "done"
    /\ UNCHANGED <<remove_fn, session, printed, requestVars, healthResp>>

Preload ==
    \/ ImportOk
    \/ ImportFail
    \/ AssignRemoveFn
    \/ NewSessionOk
    \/ NewSessionFail
    \/ WarmupOk
    \/ WarmupFail
    \/ SetReady

\* ------------------------------------------------ remove_bg (lines 84-109)
\* The handler returns: the worker holds the response until it is sent.
Return(t, r) ==
    /\ resp' = [resp EXCEPT ![t] = r]
    /\ pc' = [pc EXCEPT ![t] = "done"]

Goto(t, l) ==
    /\ pc' = [pc EXCEPT ![t] = l]
    /\ UNCHANGED resp

\* A worker thread accepts a POST /remove-bg request and enters remove_bg.
Arrive(t) ==
    /\ pc[t] = "idle"
    /\ accepted < MaxRequests
    /\ \E p \in Payloads : payload' = [payload EXCEPT ![t] = p]
    /\ accepted' = accepted + 1
    /\ Goto(t, "files")
    /\ UNCHANGED <<globals, healthResp, img, out_img, usedFn, usedSess, gate>>

\* Variant of ParseFiles: MAX_CONTENT_LENGTH is not configured.
ParseFiles_NoLimit(t) ==
    /\ pc[t] = "files"
    /\ Goto(t, "validate")
    /\ UNCHANGED <<globals, healthResp, payload, img, out_img, usedFn, usedSess, gate,
                   accepted>>

\* line 86: request.files parses the body; a body longer than
\* MAX_CONTENT_LENGTH raises RequestEntityTooLarge, which the 413 error
\* handler (lines 31-33) turns into the response.
ParseFiles(t) ==
    /\ pc[t] = "files"
    /\ IF payload[t].size > MAX_CONTENT_LENGTH
       THEN Return(t, handle_request_entity_too_large)
       ELSE Goto(t, "validate")
    /\ UNCHANGED <<globals, healthResp, payload, img, out_img, usedFn, usedSess, gate,
                   accepted>>

\* Variant of Truthy: the test is "file is not None".
Truthy_IsNotNone(field) == field # "absent"

\* bool(file): None is falsy, and a FileStorage is truthy when its filename
\* is not empty.
Truthy(field) == field = "file"

\* Variant of Validate: the handler has no readiness test.
Validate_NoGate(t) ==
    /\ pc[t] = "validate"
    /\ IF ~Truthy(payload[t].field)
       THEN /\ Return(t, TextResp(400, "Missing 'image' file field"))
            /\ UNCHANGED gate
       ELSE /\ Goto(t, "decode")
            /\ gate' = [gate EXCEPT ![t] = "open"]
    /\ UNCHANGED <<globals, healthResp, payload, img, out_img, usedFn, usedSess, accepted>>

\* lines 87-88: if not file: return 400
Validate(t) ==
    /\ pc[t] = "validate"
    /\ IF ~Truthy(payload[t].field)
       THEN Return(t, TextResp(400, "Missing 'image' file field"))
       ELSE Goto(t, "gate_event")
    /\ UNCHANGED <<globals, healthResp, payload, img, out_img, usedFn, usedSess, gate,
                   accepted>>

ModelNotReady == TextResp(503, "Model not ready, please retry in a few seconds")

\* Variant of GateEvent: the test of the event is left out of line 91.
GateEvent_Skipped(t) ==
    /\ pc[t] = "gate_event"
    /\ Goto(t, "gate_fn")
    /\ UNCHANGED gate
    /\ UNCHANGED <<globals, healthResp, payload, img, out_img, usedFn, usedSess, accepted>>

\* Variant of GateEvent: a request that finds the event unset loads the
\* model itself (lazy initialization inside the request).
GateEvent_LazyInit(t) ==
    /\ pc[t] = "gate_event"
    /\ IF ~ready_event
       THEN /\ remove_fn' = RembgRemove
            /\ session' = U2netpSession
            /\ ready_event' = TRUE
       ELSE UNCHANGED <<remove_fn, session, ready_event>>
    /\ Goto(t, "gate_fn")
    /\ UNCHANGED <<initPc, printed, gate>>
    /\ UNCHANGED <<healthResp, payload, img, out_img, usedFn, usedSess, accepted>>

\* Variant of GateEvent: the handler waits for the event (ready_event.wait()).
GateEvent_Waits(t) ==
    /\ pc[t] = "gate_event"
    /\ ready_event
    /\ Goto(t, "gate_fn")
    /\ UNCHANGED gate
    /\ UNCHANGED <<globals, healthResp, payload, img, out_img, usedFn, usedSess, accepted>>

\* line 91, first operand: not ready_event.is_set()
GateEvent(t) ==
    /\ pc[t] = "gate_event"
    /\ IF ~ready_event
       THEN /\ gate' = [gate EXCEPT ![t] = "closed"]
            /\ Return(t, ModelNotReady)
       ELSE /\ Goto(t, "gate_fn")
            /\ UNCHANGED gate
    /\ UNCHANGED <<globals, healthResp, payload, img, out_img, usedFn, usedSess, accepted>>

\* line 91, second operand: remove_fn is None
GateFn(t) ==
    /\ pc[t] = "gate_fn"
    /\ IF remove_fn = None
       THEN /\ gate' = [gate EXCEPT ![t] = "closed"]
            /\ Return(t, ModelNotReady)
       ELSE /\ Goto(t, "gate_session")
            /\ UNCHANGED gate
    /\ UNCHANGED <<globals, healthResp, payload, img, out_img, usedFn, usedSess, accepted>>

\* Variant of GateSession: the test is inverted (session is not None).
GateSession_Inverted(t) ==
    /\ pc[t] = "gate_session"
    /\ IF session # None
       THEN /\ gate' = [gate EXCEPT ![t] = "closed"]
            /\ Return(t, ModelNotReady)
       ELSE /\ gate' = [gate EXCEPT ![t] = "open"]
            /\ Goto(t, "decode")
    /\ UNCHANGED <<globals, healthResp, payload, img, out_img, usedFn, usedSess, accepted>>

\* line 91, third operand: session is None
GateSession(t) ==
    /\ pc[t] = "gate_session"
    /\ IF session = None
       THEN /\ gate' = [gate EXCEPT ![t] = "closed"]
            /\ Return(t, ModelNotReady)
       ELSE /\ gate' = [gate EXCEPT ![t] = "open"]
            /\ Goto(t, "decode")
    /\ UNCHANGED <<globals, healthResp, payload, img, out_img, usedFn, usedSess, accepted>>

\* lines 107-109: except Exception as e: return (str(e), 500, text/plain)
Caught(t, e) == Return(t, TextResp(500, e))

\* Variant of Decode: a module-wide lock is held from decode to encode, so
\* decode waits while another request is between those steps.
Decode_Locked(t) ==
    /\ pc[t] = "decode"
    /\ \A u \in Threads \ {t} : pc[u] \notin {"downscale", "infer", "encode"}
    /\ IF payload[t].decodable
       THEN /\ img' = [img EXCEPT ![t] = payload[t].img]
            /\ Goto(t, "downscale")
       ELSE /\ Caught(t, DecodeErr)
            /\ UNCHANGED img
    /\ UNCHANGED <<globals, healthResp, payload, out_img, usedFn, usedSess, gate, accepted>>

\* Variant of Decode: a decode failure is swallowed and the handler goes on.
Decode_SwallowsError(t) ==
    /\ pc[t] = "decode"
    /\ img' = [img EXCEPT ![t] = payload[t].img]
    /\ Goto(t, "downscale")
    /\ UNCHANGED <<globals, healthResp, payload, out_img, usedFn, usedSess, gate, accepted>>

\* line 96: Image.open(file.stream).convert("RGBA")
Decode(t) ==
    /\ pc[t] = "decode"
    /\ IF payload[t].decodable
       THEN /\ img' = [img EXCEPT ![t] = payload[t].img]
            /\ Goto(t, "downscale")
       ELSE /\ Caught(t, DecodeErr)
            /\ UNCHANGED img
    /\ UNCHANGED <<globals, healthResp, payload, out_img, usedFn, usedSess, gate, accepted>>

\* Variant of Downscale: the call passes max_dim=512.
Downscale_MaxDim512(t) ==
    /\ pc[t] = "downscale"
    /\ \/ img' = [img EXCEPT ![t] = downscale_if_needed(img[t], 512)]
       \/ /\ Max(img[t].w, img[t].h) > 512
          /\ img' = img
    /\ Goto(t, "infer")
    /\ UNCHANGED <<globals, healthResp, payload, out_img, usedFn, usedSess, gate, accepted>>

\* Variant of Downscale: downscale_if_needed has no try/except, so a failed
\* resize reaches the handler of remove_bg.
Downscale_Propagates(t) ==
    /\ pc[t] = "downscale"
    /\ \/ /\ img' = [img EXCEPT ![t] = downscale_if_needed(img[t], MAX_DIM)]
          /\ Goto(t, "infer")
       \/ /\ Max(img[t].w, img[t].h) > MAX_DIM
          /\ img' = img
          /\ Caught(t, "resize failed")
    /\ UNCHANGED <<globals, healthResp, payload, out_img, usedFn, usedSess, gate, accepted>>

\* line 97: img = downscale_if_needed(img, max_dim=800).  When the picture
\* is too large, thumbnail either resizes the copy or raises, and then the
\* except branch (lines 76-78) returns the copy as it is.
Downscale(t) ==
    /\ pc[t] = "downscale"
    /\ \/ img' = [img EXCEPT ![t] = downscale_if_needed(img[t], MAX_DIM)]
       \/ /\ Max(img[t].w, img[t].h) > MAX_DIM
          /\ img' = img
    /\ Goto(t, "infer")
    /\ UNCHANGED <<globals, healthResp, payload, out_img, usedFn, usedSess, gate, accepted>>

\* Variant of Infer: a failed inference marks the model not ready
\* (ready_event.clear()).
Infer_ClearsOnFailure(t) ==
    /\ pc[t] = "infer"
    /\ usedFn' = [usedFn EXCEPT ![t] = remove_fn]
    /\ usedSess' = [usedSess EXCEPT ![t] = session]
    /\ \/ /\ out_img' = [out_img EXCEPT ![t] = RemoveBackground(img[t])]
          /\ Goto(t, "encode")
          /\ UNCHANGED ready_event
       \/ /\ Caught(t, InferErr)
          /\ ready_event' = FALSE
          /\ UNCHANGED out_img
    /\ UNCHANGED <<remove_fn, session, initPc, printed>>
    /\ UNCHANGED <<healthResp, payload, img, gate, accepted>>

\* Variant of Infer: img is a module global, so the call gets the picture
\* the other worker decoded last.
Infer_SharedImage(t) ==
    /\ pc[t] = "infer"
    /\ usedFn' = [usedFn EXCEPT ![t] = remove_fn]
    /\ usedSess' = [usedSess EXCEPT ![t] = session]
    /\ \E u \in Threads \ {t} :
          \/ /\ out_img' = [out_img EXCEPT ![t] = RemoveBackground(img[u])]
             /\ Goto(t, "encode")
          \/ /\ Caught(t, InferErr)
             /\ UNCHANGED out_img
    /\ UNCHANGED <<globals, healthResp, payload, img, gate, accepted>>

\* line 100: out_img = remove_fn(img, session=session).  The call reads the
\* two globals again; calling None raises TypeError, and the model itself
\* may raise.
Infer(t) ==
    /\ pc[t] = "infer"
    /\ usedFn' = [usedFn EXCEPT ![t] = remove_fn]
    /\ usedSess' = [usedSess EXCEPT ![t] = session]
    /\ IF remove_fn = None
       THEN /\ Caught(t, NoneCallErr)
            /\ UNCHANGED out_img
       ELSE \/ /\ out_img' = [out_img EXCEPT ![t] = RemoveBackground(img[t])]
               /\ Goto(t, "encode")
            \/ /\ Caught(t, InferErr)
               /\ UNCHANGED out_img
    /\ UNCHANGED <<globals, healthResp, payload, img, gate, accepted>>

\* lines 103-106: out_img.save(buf, format="PNG"); send_file(buf, image/png)
Encode(t) ==
    /\ pc[t] = "encode"
    /\ \/ Return(t, PngResp(out_img[t]))
       \/ Caught(t, EncodeErr)
    /\ UNCHANGED <<globals, healthResp, payload, img, out_img, usedFn, usedSess, gate,
                   accepted>>

\* The response has been written to the client; the worker drops the
\* request's locals and waits for the next request.
Finish(t) ==
    /\ pc[t] = "done"
    /\ pc' = [pc EXCEPT ![t] = "idle"]
    /\ payload' = [payload EXCEPT ![t] = NoPayload]
    /\ img' = [img EXCEPT ![t] = NoImg]
    /\ out_img' = [out_img EXCEPT ![t] = NoImg]
    /\ usedFn' = [usedFn EXCEPT ![t] = None]
    /\ usedSess' = [usedSess EXCEPT ![t] = None]
    /\ gate' = [gate EXCEPT ![t] = "untested"]
    /\ resp' = [resp EXCEPT ![t] = NoResp]
    /\ UNCHANGED <<globals, healthResp, accepted>>

remove_bg(t) ==
    \/ Arrive(t)
    \/ ParseFiles(t)
    \/ Validate(t)
    \/ GateEvent(t)
    \/ GateFn(t)
    \/ GateSession(t)
    \/ Decode(t)
    \/ Downscale(t)
    \/ Infer(t)
    \/ Encode(t)
    \/ Finish(t)

\* ------------------------------------------------- health (lines 80-82)
\* jsonify({"status": "ok"}): 200 with a JSON body.
JsonOk ==
    [status |-> 200, ctype |-> "application/json",
     text |-> "{\"status\":\"ok\"}", img |-> NoImg]

\* Variant of Health: the health check answers 503 until the model is ready.
Health_RequiresReady ==
    /\ healthResp = NoResp
    /\ healthResp' = IF ready_event THEN JsonOk ELSE ModelNotReady
    /\ UNCHANGED <<globals, requestVars>>

\* lines 80-82: GET / runs health(), which reads no state and returns.
Health ==
    /\ healthResp = NoResp
    /\ healthResp' = JsonOk
    /\ UNCHANGED <<globals, requestVars>>

\* The health response has been written to the client.
HealthSent ==
    /\ healthResp # NoResp
    /\ healthResp' = NoResp
    /\ UNCHANGED <<globals, requestVars>>

Next ==
    \/ Preload
    \/ \E t \in Threads : remove_bg(t)
    \/ Health
    \/ HealthSent

Spec == Init /\ [][Next]_vars

\* A step of the request worker t is serving: every line of remove_bg
\* returns or goes on to the next line.
RequestStep(t) ==
    \/ ParseFiles(t)
    \/ Validate(t)
    \/ GateEvent(t)
    \/ GateFn(t)
    \/ GateSession(t)
    \/ Decode(t)
    \/ Downscale(t)
    \/ Infer(t)
    \/ Encode(t)

\* Every worker thread keeps being scheduled while it serves a request.
\* Nothing is assumed of the _preload_rembg thread: the import, new_session
\* or the warm-up call may never return.
SpecFair ==
    /\ Init
    /\ [][Next]_vars
    /\ \A t \in Threads : WF_vars(RequestStep(t))

\* ------------------------------------------------- downscale on many sizes
\* The sides of the pictures of the downscale runs.
DsSides ==
    (1..MaxSmallSide)
    \cup ((MAX_DIM - SideDelta)..(MAX_DIM + SideDelta))
    \cup {1000, 1600, 2000, 2001, 3000}

\* The model is ready and one worker has just decoded (line 96) an upload
\* of any size in DsSides x DsSides; the other workers are idle.
InitDownscale ==
    /\ remove_fn = RembgRemove
    /\ session = U2netpSession
    /\ ready_event = TRUE
    /\ initPc = "done"
    /\ printed = "rembg warm-up completed."
    /\ \E t \in Threads, w \in DsSides, h \in DsSides, p \in Pixels :
          LET i == [w |-> w, h |-> h, px |-> p] IN
          /\ pc = [u \in Threads |-> IF u = t THEN "downscale" ELSE "idle"]
          /\ payload = [u \in Threads |->
                          IF u = t
                          THEN [size |-> MAX_CONTENT_LENGTH, field |-> "file",
                                decodable |-> TRUE, img |-> i]
                          ELSE NoPayload]
          /\ img = [u \in Threads |-> IF u = t THEN i ELSE NoImg]
          /\ gate = [u \in Threads |-> IF u = t THEN "open" ELSE "untested"]
    /\ out_img = [t \in Threads |-> NoImg]
    /\ usedFn = [t \in Threads |-> None]
    /\ usedSess = [t \in Threads |-> None]
    /\ resp = [t \in Threads |-> NoResp]
    /\ accepted = 1
    /\ healthResp = NoResp

\* The rest of remove_bg from line 97 on.
NextDownscale ==
    \E t \in Threads :
        \/ Downscale(t)
        \/ Infer(t)
        \/ Encode(t)

SpecDownscale == InitDownscale /\ [][NextDownscale]_vars

\* ================================================================ claims
WarmupFailed == printed = "rembg warm-up failed (continuing)"

WarmupCompleted == printed = "rembg warm-up completed."

LoadFailed == printed = "rembg preload failed"

WithinLimit(p) == p.size <= MAX_CONTENT_LENGTH

\* The positions of remove_bg inside the try block (lines 94-106).
InTry == {"decode", "downscale", "infer", "encode"}

\* C1 as stated: once the warm-up call has raised, the readiness gate of
\* remove_bg never passes for any request.
C1_Original ==
    WarmupFailed => \A t \in Threads : gate[t] # "open"

\* C1 (amended): ready_event is set only after remove_fn and session have
\* been assigned and the warm-up call has concluded, by returning or by
\* raising; a raised warm-up does not keep the service not-ready: when the
\* thread ends after it, ready_event is set, and only then can a gate pass.
C1_ReadyAfterWarmupConcluded ==
    /\ ready_event =>
          /\ remove_fn = RembgRemove
          /\ session = U2netpSession
          /\ WarmupCompleted \/ WarmupFailed
    /\ (WarmupFailed /\ initPc = "done") => ready_event
    /\ \A t \in Threads : gate[t] = "open" => ready_event

\* A request passed the gate although the warm-up call had raised.
C1_Witness ==
    /\ WarmupFailed
    /\ \E t \in Threads : gate[t] = "open" /\ pc[t] = "decode"

\* C2 as stated: while ready_event is unset every finished request, whatever
\* its payload, has status 503.
C2_Original ==
    ~ready_event =>
        \A t \in Threads : pc[t] = "done" => resp[t].status = 503

\* C2 (amended): while ready_event is unset no request is at the decode or
\* inference step or has decoded anything, and a finished request has 413
\* when its body exceeds the size limit, else 400 when it carries no image
\* file, else 503.
C2_NotReadyShortCircuits ==
    ~ready_event =>
        \A t \in Threads :
            /\ pc[t] \notin InTry
            /\ img[t] = NoImg /\ out_img[t] = NoImg /\ usedFn[t] = None
            /\ pc[t] = "done" =>
                  resp[t] = IF ~WithinLimit(payload[t])
                            THEN TextResp(413, "File too large")
                            ELSE IF payload[t].field # "file"
                            THEN TextResp(400, "Missing 'image' file field")
                            ELSE ModelNotReady

\* A request with a decodable picture got 503 while the model was loaded
\* and the warm-up had not concluded.
C2_Witness ==
    /\ ~ready_event /\ session # None
    /\ \E t \in Threads :
          /\ pc[t] = "done" /\ payload[t] \in UploadPayloads
          /\ resp[t].status = 503

\* C3: a request that has seen ready_event set (it is past the first test
\* of line 91) finds remove_fn and session holding their final values at
\* the rest of the gate, and the inference call of line 100 is made with
\* those values.
C3_NoPartialResource ==
    \A t \in Threads :
        /\ (pc[t] \in {"gate_fn", "gate_session"} \/ gate[t] = "open") =>
              /\ remove_fn = RembgRemove
              /\ session = U2netpSession
        /\ (pc[t] = "encode" \/ resp[t].status = 200
              \/ resp[t].text \in {InferErr, EncodeErr, NoneCallErr}) =>
              /\ usedFn[t] = RembgRemove
              /\ usedSess[t] = U2netpSession

\* A request is between the tests of line 91 and another has made the
\* inference call.
C3_Witness ==
    \E t, u \in Threads :
        /\ pc[t] = "gate_fn"
        /\ pc[u] = "encode" /\ usedSess[u] = U2netpSession

\* C4 as stated: when _preload_rembg has ended, ready_event is set.
C4_Original ==
    initPc = "done" => ready_event

\* C4 (amended): when _preload_rembg has ended, ready_event is set exactly
\* when the import and new_session succeeded (the warm-up may have returned
\* or raised); after an import or new_session failure it is left unset.
C4_SignalIffLoaded ==
    initPc = "done" =>
        /\ ready_event <=> ~LoadFailed
        /\ ready_event <=> (session # None)
        /\ LoadFailed \/ WarmupCompleted \/ WarmupFailed

\* The thread ended by a new_session failure and the event is unset.
C4_Witness ==
    initPc = "done" /\ remove_fn # None /\ session = None /\ ~ready_event

C6_InferOnlyWhenReady ==
    \A t \in Threads :
        (pc[t] = "infer" \/ usedFn[t] # None \/ out_img[t] # NoImg) =>
            /\ gate[t] = "open"
            /\ ready_event
            /\ remove_fn # None
            /\ session # None

\* Two requests are at the inference step at once.
C6_Witness ==
    \A t \in Threads : pc[t] = "infer" /\ gate[t] = "open"

Missing400 == TextResp(400, "Missing 'image' file field")

\* C7 as stated: a finished request has the 400 response exactly when its
\* payload has no image field.
C7_Original ==
    \A t \in Threads :
        pc[t] = "done" =>
            (resp[t] = Missing400 <=> payload[t].field = "absent")

\* C7 (amended): a finished request has 400, with a non-empty text/plain
\* body and no image, exactly when its body is within the size limit and
\* its image field is absent or is a file part with an empty filename;
\* this does not depend on readiness, and such a request has neither
\* tested the gate nor decoded nor called the model.
C7_MissingInput ==
    \A t \in Threads :
        pc[t] = "done" =>
            /\ resp[t].status = 400 <=>
                  (WithinLimit(payload[t]) /\ payload[t].field # "file")
            /\ resp[t].status = 400 =>
                  /\ resp[t].ctype = "text/plain"
                  /\ resp[t].text # ""
                  /\ resp[t].img = NoImg
                  /\ gate[t] = "untested"
                  /\ img[t] = NoImg /\ usedFn[t] = None /\ out_img[t] = NoImg

\* The model is ready; one request got 400 for an empty file part and
\* another got 400 for an absent field.
C7_Witness ==
    \E t, u \in Threads :
        /\ pc[t] = "done" /\ resp[t] = Missing400
        /\ payload[t].field = "empty" /\ ready_event
        /\ pc[u] = "done" /\ resp[u] = Missing400
        /\ payload[u].field = "absent"

\* C8: a request whose body exceeds MAX_CONTENT_LENGTH never gets past
\* line 86, decodes nothing, and finishes with 413 and a text/plain body,
\* whether or not the model is ready; a body of exactly the limit is not
\* rejected.
C8_TooLargeBeforeDecode ==
    \A t \in Threads :
        /\ payload[t].size > MAX_CONTENT_LENGTH =>
              /\ pc[t] \in {"files", "done"}
              /\ img[t] = NoImg /\ out_img[t] = NoImg /\ gate[t] = "untested"
              /\ pc[t] = "done" =>
                    /\ resp[t].status = 413
                    /\ resp[t].ctype = "text/plain"
                    /\ resp[t].text # ""
                    /\ resp[t].img = NoImg
        /\ (pc[t] = "done" /\ resp[t].status = 413) =>
              payload[t].size > MAX_CONTENT_LENGTH

\* An oversized upload of a decodable picture got 413 while the model
\* was ready.
C8_Witness ==
    \E t \in Threads :
        /\ ready_event /\ pc[t] = "done" /\ resp[t].status = 413
        /\ payload[t].field = "file" /\ payload[t].decodable

\* C9 as stated: a finished request with a valid picture that found the
\* model ready has status 200.
C9_Original ==
    \A t \in Threads :
        (pc[t] = "done" /\ gate[t] = "open" /\ payload[t] \in UploadPayloads)
            => resp[t].status = 200

\* Response r is one C9 (amended) allows for upload p whose picture, as
\* passed to the model, is i.
C9_Allowed(r, p, i) ==
    \/ r \in {TextResp(500, InferErr), TextResp(500, EncodeErr)}
    \/ /\ r = PngResp(r.img)
       /\ r.img.w = i.w /\ r.img.h = i.h
       /\ r.img.w >= 1 /\ r.img.h >= 1
       /\ r.img.w <= p.img.w /\ r.img.h <= p.img.h
       /\ r.img.px = p.img.px

\* C9 (amended): a request with a valid picture that finishes while
\* ready_event is set gets 200 with a PNG of the pixel size of the
\* (possibly downscaled) input, no larger than the upload, unless the
\* inference call or the PNG encoding raises, and then 500 with a
\* text/plain body; it never gets 503.
C9_ValidUploadWhenReady ==
    [][\A t \in Threads :
          (/\ ready_event
           /\ payload[t] \in UploadPayloads
           /\ pc[t] # "done" /\ pc'[t] = "done")
          => C9_Allowed(resp'[t], payload[t], img[t])]_vars

\* A 2000x1000 upload was answered with an 800x400 PNG of its own pixels.
C9_Witness ==
    \E t \in Threads :
        /\ pc[t] = "done" /\ resp[t].status = 200
        /\ resp[t].ctype = "image/png"
        /\ payload[t].img.w = 2000 /\ payload[t].img.h = 1000
        /\ resp[t].img = [w |-> 800, h |-> 400, px |-> payload[t].img.px]

\* The locals of one request.
Locals(t) ==
    <<pc[t], payload[t], img[t], out_img[t], usedFn[t], usedSess[t], gate[t],
      resp[t]>>

\* Response r is one a request with payload p and gate outcome g can get.
C10_Outcome(r, p, g) ==
    IF ~WithinLimit(p) THEN r = TextResp(413, "File too large")
    ELSE IF p.field # "file" THEN r = Missing400
    ELSE IF g # "open" THEN r = ModelNotReady
    ELSE IF ~p.decodable THEN r = TextResp(500, DecodeErr)
    ELSE \/ r \in {TextResp(500, InferErr), TextResp(500, EncodeErr)}
         \/ /\ r = PngResp(r.img)
            /\ r.img.px = p.img.px
            /\ r.img.w \in 1..p.img.w /\ r.img.h \in 1..p.img.h

\* C10: the response of a finished request is one its own payload and the
\* readiness it observed allow, whatever the other requests do (their
\* payloads, failures and positions do not occur in the condition); a PNG
\* body holds the pixels of the request's own upload; and a step of one
\* request leaves the locals and the response of every other request
\* unchanged.
C10_RequestsIndependent ==
    /\ [](\A t \in Threads :
            pc[t] = "done" => C10_Outcome(resp[t], payload[t], gate[t]))
    /\ [][\A t, u \in Threads :
            (t # u /\ Locals(t)' # Locals(t)) => Locals(u)' = Locals(u)]_vars

\* Two requests with different pixels finished together, one with its own
\* PNG and the other with an inference failure.
C10_Witness ==
    \E t, u \in Threads :
        /\ pc[t] = "done" /\ pc[u] = "done"
        /\ payload[t].img.px = "pxA" /\ payload[u].img.px = "pxB"
        /\ resp[t].status = 200 /\ resp[t].img.px = "pxA"
        /\ resp[u] = TextResp(500, InferErr)

\* o is i scaled into the max_dim box: its longer side is max_dim, its
\* shorter side is at least 1 and less than one pixel away from the shorter
\* side of i scaled by max_dim / longer side, and the pixels are those of i.
C11_Scaled(i, o) ==
    /\ o.px = i.px
    /\ o.w >= 1 /\ o.h >= 1
    /\ Max(o.w, o.h) = MAX_DIM
    /\ IF i.w >= i.h
       THEN o.w = MAX_DIM /\ Abs(o.h * i.w - i.h * MAX_DIM) < i.w
       ELSE o.h = MAX_DIM /\ Abs(o.w * i.h - i.w * MAX_DIM) < i.h

C12_IdentityWithinBounds ==
    [][\A t \in Threads :
          (/\ pc[t] = "downscale" /\ pc'[t] # "downscale"
           /\ Max(img[t].w, img[t].h) <= MAX_DIM)
          => /\ img'[t] = img[t]
             /\ img'[t] = payload[t].img
             /\ pc'[t] = "infer"]_vars

\* A picture whose longer side is exactly max_dim went on unchanged.
C12_Witness ==
    \E t \in Threads :
        /\ pc[t] = "infer"
        /\ payload[t].img.w = MAX_DIM /\ payload[t].img.h = MAX_DIM - 1
        /\ img[t] = payload[t].img

\* The steps of remove_bg in their order, and the moves between them: each
\* step goes on to the next one or ends the request.
C13_Order ==
    <<"files", "validate", "gate_event", "gate_fn", "gate_session", "decode",
      "downscale", "infer", "encode">>

C13_Moves ==
    { <<"idle", "files">>, <<"done", "idle">> }
    \cup { <<C13_Order[k], C13_Order[k + 1]>> : k \in 1..(Len(C13_Order) - 1) }
    \cup { <<C13_Order[k], "done">> : k \in 1..Len(C13_Order) }

\* C13: a request moves through validate, readiness gate, decode,
\* preprocess, infer, encode in that order and gets its response in the
\* step that ends it, once; a failed step leaves the later steps undone
\* (their locals are unset); a decode, inference or encode failure gives
\* 500 with a text/plain body and no image; and a response with PNG bytes
\* is given only when the gate passed and decode, inference and encode all
\* succeeded.
C13_PipelineShortCircuits ==
    /\ [][\A t \in Threads :
            /\ pc'[t] # pc[t] => <<pc[t], pc'[t]>> \in C13_Moves
            /\ (pc[t] # "done" /\ pc'[t] # "done") => resp'[t] = NoResp
            /\ (pc[t] = "done" /\ pc'[t] = "done") => resp'[t] = resp[t]]_vars
    /\ [](\A t \in Threads :
            /\ pc[t] = "done" =>
                  /\ resp[t].status \in {200, 400, 413, 500, 503}
                  /\ resp[t].status # 200 =>
                        /\ resp[t].ctype = "text/plain"
                        /\ resp[t].img = NoImg
                  /\ resp[t].status \in {400, 413, 503} =>
                        img[t] = NoImg /\ usedFn[t] = None /\ out_img[t] = NoImg
                  /\ resp[t].status = 500 =>
                        /\ gate[t] = "open"
                        /\ resp[t].text \in {DecodeErr, InferErr, EncodeErr}
                  /\ resp[t].text = DecodeErr =>
                        /\ ~payload[t].decodable
                        /\ img[t] = NoImg /\ usedFn[t] = None
                        /\ out_img[t] = NoImg
                  /\ resp[t].text = InferErr =>
                        img[t] # NoImg /\ usedFn[t] # None /\ out_img[t] = NoImg
                  /\ resp[t].text = EncodeErr =>
                        img[t] # NoImg /\ usedFn[t] # None /\ out_img[t] # NoImg
                  /\ resp[t].status = 200 =>
                        /\ gate[t] = "open" /\ payload[t].decodable
                        /\ img[t] # NoImg /\ usedFn[t] # None
                        /\ out_img[t] # NoImg
                        /\ resp[t] = PngResp(out_img[t])
            /\ ~payload[t].decodable => img[t] = NoImg /\ out_img[t] = NoImg)

\* An undecodable upload got 500 at the decode step while another request
\* got 500 from the encode step.
C13_Witness ==
    \E t, u \in Threads :
        /\ pc[t] = "done" /\ resp[t] = TextResp(500, DecodeErr)
        /\ pc[u] = "done" /\ resp[u] = TextResp(500, EncodeErr)

InFlight(t) == pc[t] \notin {"idle", "done"}

\* C14: a request in progress always has a step it can take, whatever the
\* position of _preload_rembg, and with its own thread scheduled fairly it
\* reaches its response even when the initialization thread never moves
\* again.
C14_GateNeverBlocks ==
    /\ [](\A t \in Threads : InFlight(t) => ENABLED RequestStep(t))
    /\ \A t \in Threads : InFlight(t) ~> (pc[t] = "done")

\* A request was answered 503 while the warm-up call had not returned.
C14_Witness ==
    \E t \in Threads :
        /\ initPc = "warmup"
        /\ pc[t] = "done" /\ resp[t] = ModelNotReady
        /\ payload[t] \in UploadPayloads

\* C15: remove_fn, session and ready_event are each written at most once
\* and never reset; a step that changes one of them is a step of
\* _preload_rembg and leaves every request and the health response alone
\* (so no step of remove_bg or health changes them); _preload_rembg never
\* goes back to its start and does nothing after it has ended.
C15_WriteOnceByInit ==
    [][/\ remove_fn # None => remove_fn' = remove_fn
       /\ session # None => session' = session
       /\ ready_event => ready_event'
       /\ <<remove_fn, session, ready_event>>' # <<remove_fn, session, ready_event>>
             => /\ initPc' # initPc
                /\ UNCHANGED <<requestVars, healthResp>>
       /\ <<requestVars, healthResp>>' # <<requestVars, healthResp>>
             => UNCHANGED <<remove_fn, session, ready_event, initPc, printed>>
       /\ initPc # "import" => initPc' # "import"
       /\ initPc = "done" => UNCHANGED globals]_vars

\* The globals hold their final values after one request was answered with
\* a PNG, another failed in inference, and a health check was answered.
C15_Witness ==
    /\ remove_fn = RembgRemove /\ session = U2netpSession /\ ready_event
    /\ healthResp = JsonOk
    /\ \E t, u \in Threads :
          /\ pc[t] = "done" /\ resp[t].status = 200
          /\ pc[u] = "done" /\ resp[u] = TextResp(500, InferErr)

\* C16: ready_event, once set, stays set; a request passes the gate only
\* when it is set; and from then on no readiness test of any request comes
\* out false.
C16_ReadinessMonotonic ==
    /\ [](\A t \in Threads : gate[t] = "open" => ready_event)
    /\ [][/\ ready_event => ready_event'
          /\ ready_event =>
                \A t \in Threads :
                    gate'[t] = "closed" => gate[t] = "closed"]_vars

\* The third request passed the gate after an earlier one had passed it.
C16_Witness ==
    \E t, u \in Threads :
        /\ accepted = 3
        /\ pc[t] = "done" /\ gate[t] = "open"
        /\ pc[u] = "decode" /\ gate[u] = "open"

\* C17: in every state each request in progress can take its next step,
\* each answered request can be completed, the health check can run, and
\* _preload_rembg can take its next step until it has ended, whatever
\* steps the other requests are at.
C17_NoMutualBlocking ==
    /\ \A t \in Threads :
          /\ InFlight(t) => ENABLED RequestStep(t)
          /\ pc[t] = "done" => ENABLED Finish(t)
    /\ initPc # "done" => ENABLED Preload
    /\ ENABLED (Health \/ HealthSent)

\* Two requests with different pictures are at the inference call at once
\* while a health check is being answered.
C17_Witness ==
    /\ healthResp = JsonOk
    /\ \E t, u \in Threads :
          /\ t # u /\ pc[t] = "infer" /\ pc[u] = "infer"
          /\ img[t] # img[u]

\* C18: the preprocess step never ends the request: from line 97 the
\* handler always goes on to the inference step without a response, with
\* either the downscaled picture or, when the resize raised, the picture
\* of the original size and pixels; no 500 comes from the resize.
C18_ResizeFailureFallsBack ==
    /\ [][\A t \in Threads :
            (pc[t] = "downscale" /\ pc'[t] # "downscale") =>
                /\ pc'[t] = "infer"
                /\ resp'[t] = NoResp
                /\ \/ img'[t] = img[t]
                   \/ /\ Max(img[t].w, img[t].h) > MAX_DIM
                      /\ Max(img'[t].w, img'[t].h) = MAX_DIM
                      /\ img'[t].px = img[t].px]_vars
    /\ [](\A t \in Threads :
            (pc[t] = "done" /\ resp[t].status = 500) =>
                resp[t].text \in {DecodeErr, InferErr, EncodeErr})

\* The resize of a 2000x1000 picture raised and the request was answered
\* with a PNG of the original size.
C18_Witness ==
    \E t \in Threads :
        /\ pc[t] = "done" /\ resp[t].status = 200
        /\ payload[t].img.w = 2000 /\ payload[t].img.h = 1000
        /\ resp[t].img = payload[t].img

\* C19: a GET / request can be served in every state, and its response is
\* 200 with the JSON body {"status":"ok"} whatever the position of
\* _preload_rembg and the value of ready_event; serving it changes nothing
\* else.
C19_HealthAlwaysOk ==
    /\ [](/\ healthResp \in {NoResp, JsonOk}
          /\ healthResp = NoResp => ENABLED Health)
    /\ [][healthResp' # healthResp =>
            /\ healthResp' # NoResp => healthResp' = JsonOk
            /\ UNCHANGED <<globals, requestVars>>]_vars

\* Health answered 200 after the model load had failed, while a request
\* for an image got 503.
C19_Witness ==
    /\ healthResp = JsonOk /\ LoadFailed /\ ~ready_event
    /\ \E t \in Threads : pc[t] = "done" /\ resp[t] = ModelNotReady

====
